---- MODULE Spec2Model ----
(***************************************************************************)
(* FirebasePlatformLoggingNoOp                                             *)
(* (Firestore/core/src/util/firebase_platform_logging_noop.h).             *)
(*                                                                         *)
(* The class overrides the five accessors of FirebasePlatformLogging with  *)
(* bodies that return a literal; it declares no data member.  The factory  *)
(* CreateNoOpFirebasePlatformLogging() returns a std::unique_ptr to a new  *)
(* instance.                                                               *)
(*                                                                         *)
(* The model runs owners, each holding one unique_ptr obtained from the    *)
(* factory, and threads, each calling accessors through a pointer borrowed *)
(* from an owner's handle.  A call is two steps (Invoke, Return), so calls *)
(* of different threads on one instance overlap.                           *)
(***************************************************************************)
EXTENDS Naturals, Sequences, FiniteSets

\* Bounds of the model.
NumOwners == 2
NumThreads == 2

Owners == 1..NumOwners
Threads == 1..NumThreads
\* Addresses the allocator can hand out (one per handle that can be live).
Instances == 1..NumOwners

\* nullptr, the value of an empty std::unique_ptr: the address of no instance.
Null == 0

Accessors == {"IsLoggingAvailable", "GetUserAgent", "GetHeartbeat",
              "IsGmpAppIdAvailable", "GetGmpAppId"}
FlagAccessors == {"IsLoggingAvailable", "IsGmpAppIdAvailable"}
TextAccessors == Accessors \ FlagAccessors

VARIABLES
    heap,        \* the set of live FirebasePlatformLoggingNoOp instances
    handle,      \* handle[o]: what owner o's std::unique_ptr holds
    ownerPc,     \* "start", "owning" (the factory returned), "aborted"
    pc,          \* pc[t]: "idle", "calling" (inside an accessor), "returned"
    call,        \* call[t]: [self, acc] of thread t's current or last call
    ret          \* ret[t]: the value the last completed call returned

vars == <<heap, handle, ownerPc, pc, call, ret>>

(***************************************************************************)
(* std::string from a C string: a string literal is a NUL-terminated      *)
(* array of char codes; the constructor copies the characters before the   *)
(* first NUL.                                                              *)
(***************************************************************************)
RECURSIVE StrLen(_)
StrLen(cstr) ==
    IF cstr = <<>> \/ Head(cstr) = 0 THEN 0 ELSE 1 + StrLen(Tail(cstr))

StdString(cstr) == SubSeq(cstr, 1, StrLen(cstr))

\* The literal "" of the source: the array holding only the terminator.
EmptyLiteral == <<0>>
\* A literal such as "x" (used by the faulty variants below).
NonEmptyLiteral == <<120, 0>>


NoCall == [self |-> Null, acc |-> "none"]
NoValue == "unset"

\* Thread u is inside an accessor of instance i.
InCall(u, i) == pc[u] = "calling" /\ call[u].self = i

(***************************************************************************)
(* The accessors of FirebasePlatformLoggingNoOp.  `self` is the instance   *)
(* the member function is called on (its `this`).                          *)
(***************************************************************************)
\* Faulty variant: the flag reports the platform logging as present.
IsLoggingAvailableTrue(self) == TRUE

IsLoggingAvailable(self) == FALSE

\* Faulty variants: a user agent is reported.
GetUserAgentNonEmpty(self) == StdString(NonEmptyLiteral)

GetUserAgentDefault(self) == StdString(<<102, 105, 114, 101, 0>>)

GetUserAgent(self) == StdString(EmptyLiteral)

\* Faulty variant: a heartbeat is reported.
GetHeartbeatNonEmpty(self) == StdString(NonEmptyLiteral)

\* Faulty variant: the heartbeat is reported once per instance, and is empty
\* once some caller holds it.
GetHeartbeatOnce(self) ==
    IF \E u \in Threads :
           pc[u] = "returned" /\ call[u] = [self |-> self, acc |-> "GetHeartbeat"]
    THEN StdString(EmptyLiteral)
    ELSE StdString(NonEmptyLiteral)

GetHeartbeat(self) == StdString(EmptyLiteral)

\* Faulty variant: the flag reports a GMP app id as present.
IsGmpAppIdAvailableTrue(self) == TRUE

IsGmpAppIdAvailable(self) == FALSE

\* Faulty variant: a GMP app id is reported.
GetGmpAppIdNonEmpty(self) == StdString(NonEmptyLiteral)

GetGmpAppId(self) == StdString(EmptyLiteral)

\* The virtual call through a FirebasePlatformLogging pointer.
Dispatch(self, acc) ==
    CASE acc = "IsLoggingAvailable" -> IsLoggingAvailable(self)
      [] acc = "GetUserAgent" -> GetUserAgent(self)
      [] acc = "GetHeartbeat" -> GetHeartbeat(self)
      [] acc = "IsGmpAppIdAvailable" -> IsGmpAppIdAvailable(self)
      [] acc = "GetGmpAppId" -> GetGmpAppId(self)

\* The process died on an allocation failure inside the factory.
terminated == \E o \in Owners : ownerPc[o] = "aborted"

Init ==
    /\ heap = {}
    /\ handle = [o \in Owners |-> Null]
    /\ ownerPc = [o \in Owners |-> "start"]
    /\ pc = [t \in Threads |-> "idle"]
    /\ call = [t \in Threads |-> NoCall]
    /\ ret = [t \in Threads |-> NoValue]

(***************************************************************************)
(* CreateNoOpFirebasePlatformLogging(): allocate a new instance and return *)
(* the unique_ptr owning it.  An allocation failure is fatal: the call     *)
(* does not return, and the process ends with all its threads and memory.  *)
(***************************************************************************)
\* Faulty variant: the factory returns an empty handle.
CreateReturnsNull(o) ==
    /\ ~terminated
    /\ ownerPc[o] = "start"
    /\ ownerPc' = [ownerPc EXCEPT ![o] = "owning"]
    /\ UNCHANGED <<heap, handle, pc, call, ret>>

\* Faulty variant: the factory hands out an instance that may already be owned.
CreateShared(o) ==
    /\ ~terminated
    /\ ownerPc[o] = "start"
    /\ \E i \in Instances :
        /\ heap' = heap \cup {i}
        /\ handle' = [handle EXCEPT ![o] = i]
    /\ ownerPc' = [ownerPc EXCEPT ![o] = "owning"]
    /\ UNCHANGED <<pc, call, ret>>

CreateNoOpFirebasePlatformLogging(o) ==
    /\ ~terminated
    /\ ownerPc[o] = "start"
    /\ \E i \in Instances \ heap :
        /\ heap' = heap \cup {i}
        /\ handle' = [handle EXCEPT ![o] = i]
    /\ ownerPc' = [ownerPc EXCEPT ![o] = "owning"]
    /\ UNCHANGED <<pc, call, ret>>

CreateOutOfMemory(o) ==
    /\ ~terminated
    /\ ownerPc[o] = "start"
    /\ ownerPc' = [p \in Owners |-> "aborted"]
    /\ heap' = {}
    /\ handle' = [p \in Owners |-> Null]
    /\ pc' = [t \in Threads |-> "idle"]
    /\ call' = [t \in Threads |-> NoCall]
    /\ ret' = [t \in Threads |-> NoValue]

(***************************************************************************)
(* The owner lets go of its unique_ptr (reset or destruction): the         *)
(* instance it holds is deleted.  Callers keep the instance alive for the  *)
(* duration of the calls they make through it.                             *)
(***************************************************************************)
Release(o) ==
    /\ ~terminated
    /\ ownerPc[o] = "owning"
    /\ handle[o] # Null
    /\ \A u \in Threads : ~InCall(u, handle[o])
    /\ heap' = heap \ {handle[o]}
    /\ handle' = [handle EXCEPT ![o] = Null]
    /\ ownerPc' = [ownerPc EXCEPT ![o] = "start"]
    /\ UNCHANGED <<pc, call, ret>>

(***************************************************************************)
(* A thread calls accessor acc on the instance owner o holds (through the  *)
(* pointer o's handle gives it), then the accessor returns.                *)
(***************************************************************************)
Invoke(t, o, acc) ==
    /\ ~terminated
    /\ pc[t] = "idle"
    /\ handle[o] # Null
    /\ handle[o] \in heap
    /\ pc' = [pc EXCEPT ![t] = "calling"]
    /\ call' = [call EXCEPT ![t] = [self |-> handle[o], acc |-> acc]]
    /\ UNCHANGED <<heap, handle, ownerPc, ret>>

\* Faulty variant: an accessor holds a per-instance lock, so it returns only
\* when no other thread is inside an accessor of the same instance.
ReturnSerialized(t) ==
    /\ ~terminated
    /\ pc[t] = "calling"
    /\ \A u \in Threads \ {t} : ~InCall(u, call[t].self)
    /\ ret' = [ret EXCEPT ![t] = Dispatch(call[t].self, call[t].acc)]
    /\ pc' = [pc EXCEPT ![t] = "returned"]
    /\ UNCHANGED <<heap, handle, ownerPc, call>>

Return(t) ==
    /\ ~terminated
    /\ pc[t] = "calling"
    /\ ret' = [ret EXCEPT ![t] = Dispatch(call[t].self, call[t].acc)]
    /\ pc' = [pc EXCEPT ![t] = "returned"]
    /\ UNCHANGED <<heap, handle, ownerPc, call>>

\* The caller drops the value it was returned (a bool, or a std::string
\* returned by value) and is ready for its next call.
Discard(t) ==
    /\ ~terminated
    /\ pc[t] = "returned"
    /\ pc' = [pc EXCEPT ![t] = "idle"]
    /\ call' = [call EXCEPT ![t] = NoCall]
    /\ ret' = [ret EXCEPT ![t] = NoValue]
    /\ UNCHANGED <<heap, handle, ownerPc>>

Next ==
    \/ \E o \in Owners : CreateNoOpFirebasePlatformLogging(o)
    \/ \E o \in Owners : CreateOutOfMemory(o)
    \/ \E o \in Owners : Release(o)
    \/ \E t \in Threads, o \in Owners, acc \in Accessors : Invoke(t, o, acc)
    \/ \E t \in Threads : Return(t)
    \/ \E t \in Threads : Discard(t)

Spec == Init /\ [][Next]_vars

(***************************************************************************)
(* Properties.                                                             *)
(***************************************************************************)

\* Thread t holds the value accessor acc returned.
Holds(t, acc) == pc[t] = "returned" /\ call[t].acc = acc

\* Thread t holds a value of acc, and another thread holds the value a
\* different accessor returned on the same instance.
HoldsAmongOthers(t, acc) ==
    /\ Holds(t, acc)
    /\ \E u \in Threads \ {t} :
        pc[u] = "returned" /\ call[u].self = call[t].self /\ call[u].acc # acc

\* C1: every value IsLoggingAvailable() has returned, on any instance and
\* after any sequence of accessor calls, is false.
C1_IsLoggingAvailableFalse ==
    \A t \in Threads : Holds(t, "IsLoggingAvailable") => ret[t] = FALSE

C1_Witness ==
    \E t \in Threads :
        HoldsAmongOthers(t, "IsLoggingAvailable") /\ ret[t] = FALSE

\* C2: every value IsGmpAppIdAvailable() has returned is false.
C2_IsGmpAppIdAvailableFalse ==
    \A t \in Threads : Holds(t, "IsGmpAppIdAvailable") => ret[t] = FALSE

C2_Witness ==
    \E t \in Threads :
        HoldsAmongOthers(t, "IsGmpAppIdAvailable") /\ ret[t] = FALSE

\* C3: every value GetUserAgent() has returned is the empty string.
C3_GetUserAgentEmpty ==
    \A t \in Threads : Holds(t, "GetUserAgent") => Len(ret[t]) = 0

C3_Witness ==
    \E t \in Threads : HoldsAmongOthers(t, "GetUserAgent") /\ ret[t] = <<>>

\* C4: every value GetHeartbeat() has returned is the empty string.
C4_GetHeartbeatEmpty ==
    \A t \in Threads : Holds(t, "GetHeartbeat") => Len(ret[t]) = 0

C4_Witness ==
    \E t \in Threads : HoldsAmongOthers(t, "GetHeartbeat") /\ ret[t] = <<>>

\* C5: every value GetGmpAppId() has returned is the empty string.
C5_GetGmpAppIdEmpty ==
    \A t \in Threads : Holds(t, "GetGmpAppId") => Len(ret[t]) = 0

C5_Witness ==
    \E t \in Threads : HoldsAmongOthers(t, "GetGmpAppId") /\ ret[t] = <<>>

\* In this step thread t enters an accessor / an accessor returns to t.
Enters(t) == pc[t] = "idle" /\ pc'[t] = "calling"
Returns(t) == pc[t] = "calling" /\ pc'[t] = "returned"

\* C6: a step of an accessor call changes nothing of the instances (the live
\* set, the handles, the owners), and the value an accessor returns equals
\* every value the same accessor returned earlier on the same instance,
\* whatever was called in between.
C6_NoStateDrift ==
    [][\A t \in Threads :
          /\ (Enters(t) \/ Returns(t)) =>
                 /\ heap' = heap
                 /\ handle' = handle
                 /\ ownerPc' = ownerPc
          /\ Returns(t) =>
                 \A u \in Threads \ {t} :
                     (pc[u] = "returned" /\ call[u] = call[t]) => ret'[t] = ret[u]
      ]_vars

C6_Witness ==
    \E t \in Threads, u \in Threads :
        /\ t # u
        /\ pc[t] = "returned" /\ pc[u] = "returned"
        /\ call[t] = call[u]
        /\ call[t].self \in heap
        /\ ret[t] = ret[u]

\* C7: once the factory has returned to an owner, the owner's handle is not
\* null and refers to a live instance.
C7_FactoryNeverNull ==
    \A o \in Owners :
        ownerPc[o] = "owning" => (handle[o] # Null /\ handle[o] \in heap)

C7_Witness ==
    \E o \in Owners : ownerPc[o] = "owning" /\ handle[o] \in heap

\* C8: no two handles refer to the same instance, the live instances are
\* exactly the ones a handle refers to, and an instance stops being live in
\* exactly the steps in which its owner's handle lets go of it.
C8_ExclusiveOwnership ==
    /\ [](/\ \A o1 \in Owners, o2 \in Owners :
               (o1 # o2 /\ handle[o1] # Null) => handle[o1] # handle[o2]
          /\ heap = {handle[o] : o \in Owners} \ {Null})
    /\ [][\A i \in heap :
              (i \notin heap') <=>
                  (\E o \in Owners : handle[o] = i /\ handle'[o] # i)
         ]_vars

C8_Witness ==
    \E o1 \in Owners, o2 \in Owners :
        /\ o1 # o2
        /\ ownerPc[o1] = "owning" /\ ownerPc[o2] = "owning"
        /\ handle[o1] \in heap /\ handle[o2] \in heap
        /\ handle[o1] # handle[o2]

\* The value the accessor returns in a single-threaded run.
FixedValue(acc) == IF acc \in FlagAccessors THEN FALSE ELSE <<>>

\* C9: a thread inside an accessor can always return, whatever the other
\* threads are doing, and a call that returns while another thread is inside
\* an accessor (of the same or of another instance) returns the fixed value.
C9_ConcurrentCalls ==
    /\ [](\A t \in Threads : pc[t] = "calling" => ENABLED Return(t))
    /\ [][\A t \in Threads :
              (Returns(t) /\ \E u \in Threads \ {t} : pc[u] = "calling") =>
                  ret'[t] = FixedValue(call[t].acc)
         ]_vars

C9_Witness ==
    \E t \in Threads, u \in Threads :
        /\ t # u
        /\ pc[t] = "returned" /\ InCall(u, call[t].self)
        /\ ret[t] = FixedValue(call[t].acc)

\* C10: on one instance, a false IsLoggingAvailable() goes with an empty
\* GetUserAgent() and GetHeartbeat(), and a false IsGmpAppIdAvailable() goes
\* with an empty GetGmpAppId().
C10_FlagsAgreeWithIdentifiers ==
    \A t \in Threads, u \in Threads :
        (pc[t] = "returned" /\ pc[u] = "returned" /\ call[t].self = call[u].self) =>
            /\ (/\ call[t].acc = "IsLoggingAvailable"
                /\ ret[t] = FALSE
                /\ call[u].acc \in {"GetUserAgent", "GetHeartbeat"}) => ret[u] = <<>>
            /\ (/\ call[t].acc = "IsGmpAppIdAvailable"
                /\ ret[t] = FALSE
                /\ call[u].acc = "GetGmpAppId") => ret[u] = <<>>

C10_Witness ==
    \E t \in Threads, u \in Threads :
        /\ pc[t] = "returned" /\ pc[u] = "returned"
        /\ call[t].self = call[u].self
        /\ call[t].acc = "IsLoggingAvailable" /\ ret[t] = FALSE
        /\ call[u].acc = "GetUserAgent" /\ ret[u] = <<>>

====
